---- MODULE Spec2Model ----
(***************************************************************************)
(* Lie-group differential calculus of basalt-headers                       *)
(* (include/basalt/utils/sophus_utils.hpp): logd / expd and the SO(3) and  *)
(* decoupled SE(3) Jacobians, as a state machine over exact arithmetic.    *)
(*                                                                         *)
(* Scalars.  The code is templated on a floating-point Scalar.  Here a     *)
(* Scalar is an exact real of the form  sum c * pi^p * eps^e  (c rational, *)
(* pi and eps = Sophus::Constants<Scalar>::epsilon() kept as symbols), or  *)
(* one of two absorbing values: "nan" (the IEEE non-finite results of a    *)
(* division by zero: Inf or NaN) and "unk" (a real the exact domain cannot *)
(* express, e.g. the cosine of an angle off the quarter-turn grid).        *)
(* Rounding is not modelled.                                               *)
(***************************************************************************)
EXTENDS Integers, Sequences, FiniteSets

(* ------------------------------ bounds --------------------------------- *)
\* rotation magnitudes k * pi/2, k in 1..MaxQuarter
MaxQuarter == 4
\* rotation magnitudes j * eps/2, j in 1..MaxHalfEps
MaxHalfEps == 3
\* translations (a, -a, 2a), a in 0..MaxTrans
MaxTrans == 2
MaxStep == 1

(* ----------------------------- rationals ------------------------------- *)
Abs(x) == IF x < 0 THEN -x ELSE x

RECURSIVE Gcd(_, _)
Gcd(a, b) == IF b = 0 THEN a ELSE Gcd(b, a % b)

\* the rational n/d (d # 0) in lowest terms with a positive denominator
Rat(n, d) ==
  LET s == IF d < 0 THEN -1 ELSE 1
      g == Gcd(Abs(n), Abs(d))
  IN  <<(s * n) \div g, (s * d) \div g>>

RatZero == <<0, 1>>
RatAdd(a, b) == Rat(a[1] * b[2] + b[1] * a[2], a[2] * b[2])
RatMul(a, b) == Rat(a[1] * b[1], a[2] * b[2])
RatNeg(a) == <<-a[1], a[2]>>
RatLess(a, b) == a[1] * b[2] < b[1] * a[2]

RECURSIVE ISqrt(_, _)
ISqrt(n, r) == IF r * r >= n THEN r ELSE ISqrt(n, r + 1)
IsSquare(n) == n >= 0 /\ ISqrt(n, 0) * ISqrt(n, 0) = n

(* --------------------- exact reals: sums of monomials ------------------ *)
\* a monomial c * pi^p * eps^e
Term(c, p, e) == [c |-> c, p |-> p, e |-> e]

Coef(A, p, e) ==
  IF \E t \in A : t.p = p /\ t.e = e
  THEN (CHOOSE t \in A : t.p = p /\ t.e = e).c
  ELSE RatZero

PolyAdd(A, B) ==
  LET exps == {<<t.p, t.e>> : t \in A \cup B}
      c(x) == RatAdd(Coef(A, x[1], x[2]), Coef(B, x[1], x[2]))
  IN  {Term(c(x), x[1], x[2]) : x \in {y \in exps : c(y) # RatZero}}

PolyNeg(A) == {Term(RatNeg(t.c), t.p, t.e) : t \in A}

RECURSIVE SumProd(_)
SumProd(S) ==
  IF S = {} THEN RatZero
  ELSE LET x == CHOOSE y \in S : TRUE
       IN  RatAdd(RatMul(x[1].c, x[2].c), SumProd(S \ {x}))

PolyMul(A, B) ==
  LET exps == {<<ab[1].p + ab[2].p, ab[1].e + ab[2].e>> : ab \in A \X B}
      c(x) == SumProd({ab \in A \X B :
                         /\ ab[1].p + ab[2].p = x[1]
                         /\ ab[1].e + ab[2].e = x[2]})
  IN  {Term(c(x), x[1], x[2]) : x \in {y \in exps : c(y) # RatZero}}

(* ------------------------------ Scalar --------------------------------- *)
Fin(A) == [k |-> "num", v |-> A]
NaN == [k |-> "nan", v |-> {}]
Unk == [k |-> "unk", v |-> {}]

Q(n, d) == Fin(IF n = 0 THEN {} ELSE {Term(Rat(n, d), 0, 0)})
Num(n) == Q(n, 1)
\* (n/d) * pi and (n/d) * eps
PiQ(n, d) == Fin(IF n = 0 THEN {} ELSE {Term(Rat(n, d), 1, 0)})
EpsQ(n, d) == Fin(IF n = 0 THEN {} ELSE {Term(Rat(n, d), 0, 1)})

IsFinite(x) == x.k # "nan"
IsZero(x) == x = Num(0)

\* the absorbing values: a non-finite operand wins over an untracked one
Absorb(x, y) == IF x.k = "nan" \/ y.k = "nan" THEN NaN ELSE Unk

Add(x, y) ==
  IF x.k = "num" /\ y.k = "num" THEN Fin(PolyAdd(x.v, y.v)) ELSE Absorb(x, y)
Neg(x) == IF x.k = "num" THEN Fin(PolyNeg(x.v)) ELSE x
Sub(x, y) == Add(x, Neg(y))
Mul(x, y) ==
  IF x.k = "num" /\ y.k = "num" THEN Fin(PolyMul(x.v, y.v)) ELSE Absorb(x, y)

\* x / y: a zero divisor gives a non-finite result (x/0 = +-Inf, 0/0 = NaN);
\* the divisors of the code are monomials, divided exactly
Div(x, y) ==
  IF x.k # "num" \/ y.k # "num" THEN Absorb(x, y)
  ELSE IF y.v = {} THEN NaN
  ELSE IF Cardinality(y.v) # 1 THEN Unk
  ELSE LET t == CHOOSE u \in y.v : TRUE
           inv == Term(Rat(t.c[2], t.c[1]), -t.p, -t.e)
       IN  Fin(PolyMul(x.v, {inv}))

\* std::sqrt on the squares of monomials
Sqrt(x) ==
  IF x.k # "num" THEN x
  ELSE IF x.v = {} THEN x
  ELSE IF Cardinality(x.v) # 1 THEN Unk
  ELSE LET t == CHOOSE u \in x.v : TRUE
       IN  IF /\ t.p % 2 = 0 /\ t.e % 2 = 0
              /\ IsSquare(t.c[1]) /\ IsSquare(t.c[2])
           THEN Fin({Term(<<ISqrt(t.c[1], 0), ISqrt(t.c[2], 0)>>,
                          t.p \div 2, t.e \div 2)})
           ELSE IF t.c[1] < 0 THEN NaN ELSE Unk

\* x = (m/2) * pi for an integer m: the quarter-turn grid
OnGrid(x) ==
  /\ x.k = "num"
  /\ \/ x.v = {}
     \/ /\ Cardinality(x.v) = 1
        /\ \A t \in x.v : t.p = 1 /\ t.e = 0 /\ 2 % t.c[2] = 0
Quarter(x) ==
  IF x.v = {} THEN 0
  ELSE LET t == CHOOSE u \in x.v : TRUE IN (2 * t.c[1]) \div t.c[2]

\* std::cos, std::sin: exact on the grid, untracked off it
Cos(x) ==
  IF x.k # "num" THEN x
  ELSE IF ~OnGrid(x) THEN Unk
  ELSE Num(CASE Quarter(x) % 4 = 0 -> 1
             [] Quarter(x) % 4 = 2 -> -1
             [] OTHER -> 0)
Sin(x) ==
  IF x.k # "num" THEN x
  ELSE IF ~OnGrid(x) THEN Unk
  ELSE Num(CASE Quarter(x) % 4 = 1 -> 1
             [] Quarter(x) % 4 = 3 -> -1
             [] OTHER -> 0)

\* x < y for the magnitudes the model compares: zero, c*eps, c*pi^p (c > 0);
\* eps is far below every eps-free magnitude of the model (>= pi/2), and a
\* comparison with a NaN is false
Less(x, y) ==
  IF x.k # "num" \/ y.k # "num" THEN FALSE
  ELSE IF y.v = {} THEN \E t \in x.v : t.c[1] < 0
  ELSE IF x.v = {} THEN \E t \in y.v : t.c[1] > 0
  ELSE LET a == CHOOSE u \in x.v : TRUE
           b == CHOOSE u \in y.v : TRUE
       IN  IF a.e = b.e /\ a.p = b.p THEN RatLess(a.c, b.c)
           ELSE IF a.e # b.e THEN a.e > b.e
           ELSE a.p < b.p   \* magnitudes of this shape are never compared

(* ------------------------- vectors and matrices ------------------------ *)
\* Eigen fixed-size vectors are sequences of Scalars, matrices sequences of rows
Vec3(a, b, c) == <<a, b, c>>
head3(v) == <<v[1], v[2], v[3]>>
tail3(v) == <<v[4], v[5], v[6]>>

squaredNorm(v) == Add(Add(Mul(v[1], v[1]), Mul(v[2], v[2])), Mul(v[3], v[3]))
VecScale(v, s) == [i \in 1..Len(v) |-> Mul(v[i], s)]
VecDiv(v, s) == [i \in 1..Len(v) |-> Div(v[i], s)]
VecNeg(v) == [i \in 1..Len(v) |-> Neg(v[i])]
VecAdd(u, v) == [i \in 1..Len(u) |-> Add(u[i], v[i])]

Dim(M) == Len(M)
MatFill(n, x) == [i \in 1..n |-> [j \in 1..n |-> x]]
Identity(n) == [i \in 1..n |-> [j \in 1..n |-> IF i = j THEN Num(1) ELSE Num(0)]]
\* the output left as the caller passed it
setZero_skipped(J) == J

\* MatrixBase::setIdentity, MatrixBase::setZero
setIdentity(J) == Identity(Dim(J))
setZero(J) == MatFill(Dim(J), Num(0))

MatAdd(A, B) == [i \in 1..Dim(A) |-> [j \in 1..Dim(A) |-> Add(A[i][j], B[i][j])]]
MatSub(A, B) == [i \in 1..Dim(A) |-> [j \in 1..Dim(A) |-> Sub(A[i][j], B[i][j])]]
MatScale(A, s) == [i \in 1..Dim(A) |-> [j \in 1..Dim(A) |-> Mul(A[i][j], s)]]
MatDiv(A, s) == [i \in 1..Dim(A) |-> [j \in 1..Dim(A) |-> Div(A[i][j], s)]]
MatMul(A, B) ==
  [i \in 1..3 |-> [j \in 1..3 |->
     Add(Add(Mul(A[i][1], B[1][j]), Mul(A[i][2], B[2][j])), Mul(A[i][3], B[3][j]))]]
Transpose(A) == [i \in 1..Dim(A) |-> [j \in 1..Dim(A) |-> A[j][i]]]
\* row r times vector v, over the first n entries
RECURSIVE Dot(_, _, _)
Dot(r, v, n) == IF n = 0 THEN Num(0) ELSE Add(Dot(r, v, n - 1), Mul(r[n], v[n]))
MatVec(A, v) == [i \in 1..Dim(A) |-> Dot(A[i], v, Len(v))]

\* the 3x3 block of J whose first entry is J[r+1][c+1], and J with it replaced
Block(J, r, c) == [i \in 1..3 |-> [j \in 1..3 |-> J[r + i][c + j]]]
SetBlock(J, r, c, B) ==
  [i \in 1..Dim(J) |-> [j \in 1..Dim(J) |->
     IF i - r \in 1..3 /\ j - c \in 1..3 THEN B[i - r][j - c] ELSE J[i][j]]]
topLeftCorner(J) == Block(J, 0, 0)
bottomRightCorner(J) == Block(J, Dim(J) - 3, Dim(J) - 3)

AllFinite(J) == \A i \in 1..Dim(J) : \A j \in 1..Dim(J) : IsFinite(J[i][j])

(* -------------------- Sophus primitives (external) --------------------- *)
\* Sophus::Constants<Scalar>::epsilon(), kept as the symbol eps
Epsilon == EpsQ(1, 1)

\* Sophus::SO3::hat
hat(v) ==
  << <<Num(0), Neg(v[3]), v[2]>>,
     <<v[3], Num(0), Neg(v[1])>>,
     <<Neg(v[2]), v[1], Num(0)>> >>

\* A rotation is the unit quaternion (cos(h*pi/4), sin(h*pi/4) * axis) for a
\* unit axis: h counts eighths of the quaternion's 4*pi period.  h = -1 is a
\* rotation whose quaternion the exact domain cannot express.
Rot(h, axis) ==
  IF h \in {0, 4} THEN [h |-> h, axis |-> Vec3(Num(0), Num(0), Num(0))]
  ELSE [h |-> h, axis |-> axis]
RotUnk == [h |-> -1, axis |-> Vec3(Num(0), Num(0), Num(0))]

\* Sophus::SO3::exp: theta = |omega|, q = (cos(theta/2), sin(theta/2)/theta * omega)
SO3exp(omega) ==
  LET theta == Sqrt(squaredNorm(omega))
  IN  IF IsZero(theta) THEN Rot(0, omega)
      ELSE IF OnGrid(theta) THEN Rot(Quarter(theta) % 8, VecDiv(omega, theta))
      ELSE RotUnk

\* Sophus::SO3::inverse: the conjugate quaternion
SO3inverse(R) == [R EXCEPT !.axis = VecNeg(R.axis)]

\* Sophus::SO3::matrix: I + sin(theta) * hat(a) + (1 - cos(theta)) * hat(a)^2
\* with theta = h * pi/2
SO3matrix(R) ==
  IF R.h = -1 THEN MatFill(3, Unk)
  ELSE LET A == hat(R.axis)
           th == PiQ(R.h, 2)
       IN  MatAdd(MatAdd(Identity(3), MatScale(A, Sin(th))),
                  MatScale(MatMul(A, A), Sub(Num(1), Cos(th))))

\* Sophus::SO3::log: 2 * atan(n / w) / n * vec for the quaternion (w, vec),
\* n = |vec|; the result has norm <= pi.  For w = 0 the sign of the result
\* depends on the rounding of w: sgn \in {1, -1}.
SO3log(R, sgn) ==
  IF R.h = -1 THEN Vec3(Unk, Unk, Unk)
  ELSE LET c == CASE R.h \in {1, 5} -> PiQ(1, 2)
                  [] R.h \in {3, 7} -> PiQ(-1, 2)
                  [] R.h = 2 -> PiQ(sgn, 1)
                  [] R.h = 6 -> PiQ(-sgn, 1)
                  [] OTHER -> Num(0)
       IN  VecScale(R.axis, c)

\* Sophus::SO3::operator*(SO3): the quaternion product, expressible when one
\* factor is +-1 or both turn about the same line
SO3mul(a, b) ==
  IF a.h = -1 \/ b.h = -1 THEN RotUnk
  ELSE IF a.h \in {0, 4} THEN Rot((a.h + b.h) % 8, b.axis)
  ELSE IF b.h \in {0, 4} THEN Rot((a.h + b.h) % 8, a.axis)
  ELSE IF a.axis = b.axis THEN Rot((a.h + b.h) % 8, a.axis)
  ELSE IF a.axis = VecNeg(b.axis) THEN Rot((a.h - b.h) % 8, a.axis)
  ELSE RotUnk

\* Sophus::SO3::operator*(Point): the point rotated, matrix() * p
SO3act(R, p) == MatVec(SO3matrix(R), p)

(* ----------------------------- logd / expd ----------------------------- *)
\* SE3(rotation, translation)
SE3(R, t) == [so3 |-> R, translation |-> t]

\* Sophus::SE3::operator*(SE3): (R1, t1) * (R2, t2) = (R1 * R2, t1 + R1 * t2)
SE3mul(a, b) ==
  SE3(SO3mul(a.so3, b.so3), VecAdd(a.translation, SO3act(a.so3, b.translation)))

expd(upsilon_omega) == SE3(SO3exp(tail3(upsilon_omega)), head3(upsilon_omega))

\* logd with head<3>() and tail<3>() interchanged
logd_swapped(se3, sgn) == SO3log(se3.so3, sgn) \o se3.translation

logd(se3, sgn) == se3.translation \o SO3log(se3.so3, sgn)

(* --------------------------- SO(3) Jacobians --------------------------- *)
SO3Fns == {"rightJacobianSO3", "rightJacobianInvSO3",
           "leftJacobianSO3", "leftJacobianInvSO3"}
SE3Fns == {"rightJacobianSE3Decoupled", "rightJacobianInvSE3Decoupled"}

\* the locals of one SO(3) Jacobian call (automatic storage)
NoLocals ==
  [phi |-> Vec3(Num(0), Num(0), Num(0)),
   phi_norm2 |-> Num(0), phi_norm |-> Num(0), phi_norm3 |-> Num(0),
   phi_hat |-> MatFill(3, Num(0)), phi_hat2 |-> MatFill(3, Num(0))]

\* phi_norm2 = phi.squaredNorm(); phi_norm = sqrt(phi_norm2);
\* phi_norm3 = phi_norm2 * phi_norm (the inverse Jacobians have no phi_norm3)
Norms(f, fr) ==
  LET n2 == squaredNorm(fr.phi)
      n == Sqrt(n2)
  IN  [fr EXCEPT !.phi_norm2 = n2, !.phi_norm = n,
                 !.phi_norm3 = IF f \in {"rightJacobianSO3", "leftJacobianSO3"}
                               THEN Mul(n2, n) ELSE @]

\* phi_hat = SO3::hat(phi); phi_hat2 = phi_hat * phi_hat
Hats(fr) ==
  [fr EXCEPT !.phi_hat = hat(fr.phi), !.phi_hat2 = MatMul(hat(fr.phi), hat(fr.phi))]

\* if (Sophus::Constants<Scalar>::epsilon() < phi_norm)
rightJacobianSO3_general(phi_norm) == Less(Epsilon, phi_norm)
\* J -= phi_hat * (1 - cos(phi_norm)) / phi_norm2
rightJacobianSO3_first(J, fr) ==
  MatSub(J, MatDiv(MatScale(fr.phi_hat, Sub(Num(1), Cos(fr.phi_norm))), fr.phi_norm2))
\* J += phi_hat2 * (phi_norm - sin(phi_norm)) / phi_norm3
rightJacobianSO3_second(J, fr) ==
  MatAdd(J, MatDiv(MatScale(fr.phi_hat2, Sub(fr.phi_norm, Sin(fr.phi_norm))),
                   fr.phi_norm3))

\* 1 / phi_norm2 - (1 + cos(phi_norm)) / (2 * phi_norm * sin(phi_norm))
InvCoefficient(fr) ==
  Sub(Div(Num(1), fr.phi_norm2),
      Div(Add(Num(1), Cos(fr.phi_norm)),
          Mul(Mul(Num(2), fr.phi_norm), Sin(fr.phi_norm))))

\* the near-zero test made against 0 instead of epsilon
general_aboveZero(phi_norm) == Less(Num(0), phi_norm)

rightJacobianInvSO3_general(phi_norm) == Less(Epsilon, phi_norm)
\* J += phi_hat / 2
rightJacobianInvSO3_first(J, fr) == MatAdd(J, MatDiv(fr.phi_hat, Num(2)))
\* J += phi_hat2 * (1 / phi_norm2 - (1 + cos) / (2 * phi_norm * sin))
rightJacobianInvSO3_second(J, fr) ==
  MatAdd(J, MatScale(fr.phi_hat2, InvCoefficient(fr)))

leftJacobianSO3_general(phi_norm) == Less(Epsilon, phi_norm)
\* J += phi_hat * (1 - cos(phi_norm)) / phi_norm2
leftJacobianSO3_first(J, fr) ==
  MatAdd(J, MatDiv(MatScale(fr.phi_hat, Sub(Num(1), Cos(fr.phi_norm))), fr.phi_norm2))
leftJacobianSO3_second(J, fr) ==
  MatAdd(J, MatDiv(MatScale(fr.phi_hat2, Sub(fr.phi_norm, Sin(fr.phi_norm))),
                   fr.phi_norm3))

\* the near-zero test made with <= instead of <
general_notBelow(phi_norm) == ~Less(phi_norm, Epsilon)

leftJacobianInvSO3_general(phi_norm) == Less(Epsilon, phi_norm)
\* J -= phi_hat / 2
leftJacobianInvSO3_first(J, fr) == MatSub(J, MatDiv(fr.phi_hat, Num(2)))
leftJacobianInvSO3_second(J, fr) ==
  MatAdd(J, MatScale(fr.phi_hat2, InvCoefficient(fr)))

\* the statements of SO(3) Jacobian f
General(f, phi_norm) ==
  CASE f = "rightJacobianSO3" -> rightJacobianSO3_general(phi_norm)
    [] f = "rightJacobianInvSO3" -> rightJacobianInvSO3_general(phi_norm)
    [] f = "leftJacobianSO3" -> leftJacobianSO3_general(phi_norm)
    [] f = "leftJacobianInvSO3" -> leftJacobianInvSO3_general(phi_norm)
First(f, J, fr) ==
  CASE f = "rightJacobianSO3" -> rightJacobianSO3_first(J, fr)
    [] f = "rightJacobianInvSO3" -> rightJacobianInvSO3_first(J, fr)
    [] f = "leftJacobianSO3" -> leftJacobianSO3_first(J, fr)
    [] f = "leftJacobianInvSO3" -> leftJacobianInvSO3_first(J, fr)
Second(f, J, fr) ==
  CASE f = "rightJacobianSO3" -> rightJacobianSO3_second(J, fr)
    [] f = "rightJacobianInvSO3" -> rightJacobianInvSO3_second(J, fr)
    [] f = "leftJacobianSO3" -> leftJacobianSO3_second(J, fr)
    [] f = "leftJacobianInvSO3" -> leftJacobianInvSO3_second(J, fr)

\* SO(3) Jacobian f run from entry to return on the 3x3 output J
SO3Jacobian(f, phi3, J) ==
  LET fr == Norms(f, [NoLocals EXCEPT !.phi = phi3])
      J0 == setIdentity(J)
  IN  IF General(f, fr.phi_norm)
      THEN Second(f, First(f, J0, Hats(fr)), Hats(fr))
      ELSE J0

rightJacobianSO3(phi3, J) == SO3Jacobian("rightJacobianSO3", phi3, J)
rightJacobianInvSO3(phi3, J) == SO3Jacobian("rightJacobianInvSO3", phi3, J)
leftJacobianSO3(phi3, J) == SO3Jacobian("leftJacobianSO3", phi3, J)
leftJacobianInvSO3(phi3, J) == SO3Jacobian("leftJacobianInvSO3", phi3, J)

(* ---------------------- decoupled SE(3) Jacobians ---------------------- *)
\* the SO(3) Jacobian each one calls on its bottom-right block
InnerOf(f) ==
  CASE f = "rightJacobianSE3Decoupled" -> "rightJacobianSO3"
    [] f = "rightJacobianInvSE3Decoupled" -> "rightJacobianInvSO3"
    [] OTHER -> f

\* the top-left block without .inverse(), and with one too many
topLeft_notInverted(J, omega) == SetBlock(J, 0, 0, SO3matrix(SO3exp(omega)))
topLeft_inverted(J, omega) == SetBlock(J, 0, 0, SO3matrix(SO3inverse(SO3exp(omega))))

\* J.topLeftCorner<3,3>() = SO3::exp(omega).inverse().matrix()
rightJacobianSE3Decoupled_topLeft(J, omega) ==
  SetBlock(J, 0, 0, SO3matrix(SO3inverse(SO3exp(omega))))
\* J.topLeftCorner<3,3>() = SO3::exp(omega).matrix()
rightJacobianInvSE3Decoupled_topLeft(J, omega) ==
  SetBlock(J, 0, 0, SO3matrix(SO3exp(omega)))
TopLeftOf(f, J, omega) ==
  CASE f = "rightJacobianSE3Decoupled" -> rightJacobianSE3Decoupled_topLeft(J, omega)
    [] f = "rightJacobianInvSE3Decoupled" -> rightJacobianInvSE3Decoupled_topLeft(J, omega)

\* decoupled SE(3) Jacobian f run from entry to return on the 6x6 output J
SE3Jacobian(f, phi6, J) ==
  LET J0 == setZero(J)
      omega == tail3(phi6)
      J1 == SetBlock(J0, 3, 3, SO3Jacobian(InnerOf(f), omega, bottomRightCorner(J0)))
  IN  TopLeftOf(f, J1, omega)

rightJacobianSE3Decoupled(phi6, J) == SE3Jacobian("rightJacobianSE3Decoupled", phi6, J)
rightJacobianInvSE3Decoupled(phi6, J) ==
  SE3Jacobian("rightJacobianInvSE3Decoupled", phi6, J)

(* ------------------------------ inputs --------------------------------- *)
\* unit axes
Directions ==
  { Vec3(Num(0), Num(0), Num(-1)),
    Vec3(Q(2, 3), Q(-1, 3), Q(2, 3)),
    Vec3(Num(0), Q(3, 5), Q(4, 5)) }

\* rotation magnitudes on the quarter-turn grid, and around the threshold eps
GridMagnitudes == {PiQ(k, 2) : k \in 1..MaxQuarter}
SmallMagnitudes == {EpsQ(j, 2) : j \in 1..MaxHalfEps}

Zero3 == Vec3(Num(0), Num(0), Num(0))
GridRotations == {Zero3} \cup {VecScale(d, m) : d \in Directions, m \in GridMagnitudes}
SmallRotations == {VecScale(d, m) : d \in Directions, m \in SmallMagnitudes}

Translations == {Vec3(Num(a), Num(-a), Num(2 * a)) : a \in 0..MaxTrans}
TwoTranslations == {Zero3, Vec3(Num(1), Num(-2), Num(3))}

\* 6-vectors (translation, rotation): for the Jacobians, which never read the
\* translation, and for the round trip logd(expd(v))
Inputs == {t \o w : t \in TwoTranslations, w \in GridRotations \cup SmallRotations}
GridInputs == {t \o w : t \in Translations, w \in GridRotations}

\* increments eps = (eps_t, eps_w) of the tangent
StepTranslations == {Vec3(Num(b), Num(0), Num(-b)) : b \in 0..MaxStep}
StepRotations == {Zero3, Vec3(Num(0), Num(1), Num(0)), Vec3(Num(-1), Num(0), Num(2))}
Steps == {t \o w : t \in StepTranslations, w \in StepRotations}

\* what an output matrix may hold before a call
JunkFill == {Num(7), NaN}

(* ------------------------------- state --------------------------------- *)
Threads == {1, 2}

VARIABLES
  phi,      \* the shared read-only input, a 6-vector
  thr,      \* per call: pc, the function called, the branch taken
  locals,   \* per call: the locals of the running SO(3) Jacobian
  out,      \* per call: the caller's output matrix J_phi
  dpc,      \* logd(expd(phi)): position of the round trip
  se3,      \* the transform expd returned
  res,      \* the tangent logd returned
  rel       \* expd(phi) * expd(J * eps): position, eps, J, J * eps, the product

vars == <<phi, thr, locals, out, dpc, se3, res, rel>>

Idle == [pc |-> "idle", fn |-> "none", took |-> "none"]

\* every call writing one static matrix
JStatic(t) == 1

\* J = const_cast<MatrixBase &>(J_phi): J aliases the caller's own output
JOf(t) == t

IsSE3(t) == thr[t].fn \in SE3Fns
\* the 3x3 matrix the SO(3) Jacobian of call t writes: the whole output, or the
\* bottom-right block the decoupled SE(3) Jacobian passes
ReadJ(t) == IF IsSE3(t) THEN bottomRightCorner(out[JOf(t)]) ELSE out[JOf(t)]
WriteJ(t, B) ==
  out' = [out EXCEPT ![JOf(t)] = IF IsSE3(t) THEN SetBlock(@, Dim(@) - 3, Dim(@) - 3, B)
                                 ELSE B]
Goto(t, l) == thr' = [thr EXCEPT ![t].pc = l]
AfterSO3(t) == IF IsSE3(t) THEN "topLeft" ELSE "done"

D_unchanged == UNCHANGED <<dpc, se3, res, rel>>

TypeInit ==
  /\ thr = [t \in Threads |-> Idle]
  /\ locals = [t \in Threads |-> NoLocals]
  /\ out = [t \in Threads |-> MatFill(3, Num(0))]
  /\ se3 = SE3(Rot(0, Zero3), Zero3)
  /\ res = Zero3 \o Zero3

\* the relation not started: eps given, nothing computed yet
Rel(l, e) ==
  [pc |-> l, eps |-> e, J |-> MatFill(3, Num(0)), Jeps |-> Zero3 \o Zero3,
   prod |-> SE3(Rot(0, Zero3), Zero3)]

Init == phi \in Inputs /\ TypeInit /\ dpc = "off" /\ rel = Rel("off", Zero3 \o Zero3)

(* ------------------------------ actions -------------------------------- *)
\* Statements that touch only the call's own locals are folded into the next
\* statement that writes J.

\* a caller invokes f with the shared phi (the SO(3) Jacobians on its rotation
\* part) and its own output matrix, which holds anything
Call(t, f, x) ==
  /\ thr[t].pc = "idle"
  /\ thr' = [thr EXCEPT ![t] = [pc |-> IF f \in SE3Fns THEN "setZero" ELSE "enter",
                                fn |-> f, took |-> "none"]]
  /\ out' = [out EXCEPT ![t] = MatFill(IF f \in SE3Fns THEN 6 ELSE 3, x)]
  /\ locals' = [locals EXCEPT ![t] = [NoLocals EXCEPT !.phi = tail3(phi)]]
  /\ UNCHANGED phi /\ D_unchanged

\* J.setZero(); omega = phi.tail<3>(), passed as phi to the SO(3) Jacobian
SetZero(t) ==
  /\ thr[t].pc = "setZero"
  /\ out' = [out EXCEPT ![JOf(t)] = setZero(@)]
  /\ locals' = [locals EXCEPT ![t].phi = tail3(phi)]
  /\ Goto(t, "enter")
  /\ UNCHANGED phi /\ D_unchanged

\* phi_norm2, phi_norm, phi_norm3; J.setIdentity()
SetIdentity(t) ==
  /\ thr[t].pc = "enter"
  /\ locals' = [locals EXCEPT ![t] = Norms(InnerOf(thr[t].fn), @)]
  /\ WriteJ(t, setIdentity(ReadJ(t)))
  /\ Goto(t, "branch")
  /\ UNCHANGED phi /\ D_unchanged

\* if (epsilon < phi_norm) { phi_hat, phi_hat2
Branch(t) ==
  /\ thr[t].pc = "branch"
  /\ IF General(InnerOf(thr[t].fn), locals[t].phi_norm)
     THEN /\ thr' = [thr EXCEPT ![t].pc = "first", ![t].took = "general"]
          /\ locals' = [locals EXCEPT ![t] = Hats(@)]
     ELSE /\ thr' = [thr EXCEPT ![t].pc = AfterSO3(t), ![t].took = "identity"]
          /\ UNCHANGED locals
  /\ UNCHANGED <<phi, out>> /\ D_unchanged

\* the first J -= / J += of the general branch
FirstTerm(t) ==
  /\ thr[t].pc = "first"
  /\ WriteJ(t, First(InnerOf(thr[t].fn), ReadJ(t), locals[t]))
  /\ Goto(t, "second")
  /\ UNCHANGED <<phi, locals>> /\ D_unchanged

\* the second J += of the general branch
SecondTerm(t) ==
  /\ thr[t].pc = "second"
  /\ WriteJ(t, Second(InnerOf(thr[t].fn), ReadJ(t), locals[t]))
  /\ Goto(t, AfterSO3(t))
  /\ UNCHANGED <<phi, locals>> /\ D_unchanged

\* J.topLeftCorner<3,3>() = ...
TopLeft(t) ==
  /\ thr[t].pc = "topLeft"
  /\ out' = [out EXCEPT ![JOf(t)] = TopLeftOf(thr[t].fn, @, locals[t].phi)]
  /\ Goto(t, "done")
  /\ UNCHANGED <<phi, locals>> /\ D_unchanged

Next ==
  \E t \in Threads :
    \/ \E f \in SO3Fns \cup SE3Fns, x \in JunkFill : Call(t, f, x)
    \/ SetZero(t)
    \/ SetIdentity(t)
    \/ Branch(t)
    \/ FirstTerm(t)
    \/ SecondTerm(t)
    \/ TopLeft(t)

Spec == Init /\ [][Next]_vars

(* --------------------- the round trip logd(expd(v)) -------------------- *)
InitD ==
  phi \in GridInputs /\ TypeInit /\ dpc = "start" /\ rel = Rel("off", Zero3 \o Zero3)

Expd ==
  /\ dpc = "start"
  /\ se3' = expd(phi)
  /\ dpc' = "exp"
  /\ UNCHANGED <<phi, thr, locals, out, res, rel>>

Logd ==
  /\ dpc = "exp"
  /\ \E sgn \in {1, -1} : res' = logd(se3, sgn)
  /\ dpc' = "log"
  /\ UNCHANGED <<phi, thr, locals, out, se3, rel>>

NextD == Expd \/ Logd

SpecD == InitD /\ [][NextD]_vars

(* ------------- the relation expd(phi) * expd(J_phi * eps) -------------- *)
InitC ==
  /\ phi \in GridInputs /\ TypeInit /\ dpc = "off"
  /\ \E e \in Steps : rel = Rel("start", e)

C_unchanged == UNCHANGED <<phi, thr, locals, out, dpc, se3, res>>

\* rightJacobianSE3Decoupled(phi, J) on an output that holds anything
Jacobian ==
  /\ rel.pc = "start"
  /\ \E x \in JunkFill :
       rel' = [rel EXCEPT !.pc = "jac", !.J = rightJacobianSE3Decoupled(phi, MatFill(6, x))]
  /\ C_unchanged

\* J_phi * eps
TimesEps ==
  /\ rel.pc = "jac"
  /\ rel' = [rel EXCEPT !.pc = "mul", !.Jeps = MatVec(rel.J, rel.eps)]
  /\ C_unchanged

\* expd(phi) * expd(J_phi * eps)
Compose ==
  /\ rel.pc = "mul"
  /\ rel' = [rel EXCEPT !.pc = "done", !.prod = SE3mul(expd(phi), expd(rel.Jeps))]
  /\ C_unchanged

NextC == Jacobian \/ TimesEps \/ Compose

SpecC == InitC /\ [][NextC]_vars

(* ------------------------------- claims -------------------------------- *)
norm(v) == Sqrt(squaredNorm(v))
omega == tail3(phi)
Pi == PiQ(1, 1)
Done(t) == thr[t].pc = "done"
Tracked(M) == \A i \in 1..Dim(M) : \A j \in 1..Dim(M) : M[i][j].k # "unk"
\* what each function returns when run alone, for every rotation part and
\* every prior content of the output (the translation part is passed as zero
\* and as every other translation where a claim is about it)
Force(f) == IF f = f THEN f ELSE f
Rotations == GridRotations \cup SmallRotations
AloneSO3 ==
  Force([f \in SO3Fns |-> Force([w \in Rotations |-> Force([x \in JunkFill |->
     SO3Jacobian(f, w, MatFill(3, x))])])])
AloneSE3 ==
  Force([f \in SE3Fns |-> Force([w \in Rotations |-> Force([x \in JunkFill |->
     SE3Jacobian(f, Zero3 \o w, MatFill(6, x))])])])
RunAlone(f, w, x) == IF f \in SE3Fns THEN AloneSE3[f][w][x] ELSE AloneSO3[f][w][x]
RotationMatrix == Force([w \in Rotations |-> SO3matrix(SO3exp(w))])
InverseRotationMatrix == Force([w \in Rotations |-> SO3matrix(SO3inverse(SO3exp(w)))])

\* C1 as stated: logd(expd(v)) returns exactly v for every 6-vector v, also
\* when the rotation part has norm larger than pi.  (Norm exactly pi is left
\* out: there the sign SO3::log returns rests on the rounding of w.)
C1_RoundTripExact == (dpc = "log" /\ norm(omega) # Pi) => res = phi

\* C1 amended: logd(expd(v)) returns the translation part of v exactly for
\* every v, and returns v itself when the rotation part w has norm smaller
\* than pi; when the norm of w is larger than pi the rotation part returned is
\* not w but a vector of norm at most pi with the same rotation exp(w).
C1_RoundTripBelowPi ==
  dpc = "log" =>
    /\ head3(res) = head3(phi)
    /\ Less(norm(omega), Pi) => res = phi
    /\ Less(Pi, norm(omega)) =>
         /\ tail3(res) # omega
         /\ ~Less(Pi, norm(tail3(res)))
         /\ SO3matrix(SO3exp(tail3(res))) = SO3matrix(SO3exp(omega))

C1_Witness ==
  /\ dpc = "log"
  /\ norm(omega) = PiQ(1, 2)
  /\ head3(phi) # Zero3
  /\ res = phi

\* C2 as stated: every Jacobian function returns a matrix whose entries are all
\* finite, for every finite phi, also when the norm is a multiple of pi.
C2_AllFinite == \A t \in Threads : Done(t) => AllFinite(out[t])

\* C3: for phi of norm below epsilon each of the four SO(3) Jacobians returns
\* exactly the identity and never enters the general branch.
C3_NearZeroIdentity ==
  \A t \in Threads :
    (thr[t].fn \in SO3Fns /\ Less(norm(omega), Epsilon)) =>
      /\ thr[t].took # "general"
      /\ thr[t].pc \notin {"first", "second"}
      /\ Done(t) => out[t] = Identity(3)

C3_Witness ==
  \E t \in Threads :
    /\ Done(t)
    /\ thr[t].fn = "rightJacobianInvSO3"
    /\ norm(omega) = EpsQ(1, 2)
    /\ thr[t].took = "identity"
    /\ out[t] = Identity(3)

\* C4 as stated: for every phi the matrices returned by rightJacobianSO3 and
\* rightJacobianInvSO3 (and by the two left variants) are inverse to each
\* other: their product in either order is the identity.
C4_InversePairs ==
  \A t, u \in Threads :
    ( /\ Done(t) /\ Done(u)
      /\ <<thr[t].fn, thr[u].fn>> \in {<<"rightJacobianSO3", "rightJacobianInvSO3">>,
                                       <<"leftJacobianSO3", "leftJacobianInvSO3">>}
      /\ Tracked(out[t]) /\ Tracked(out[u]) ) =>
      /\ MatMul(out[t], out[u]) = Identity(3)
      /\ MatMul(out[u], out[t]) = Identity(3)

ZeroBlock == MatFill(3, Num(0))

\* C5: rightJacobianSE3Decoupled returns, whatever its output held and whatever
\* the translation part of phi, the 6x6 matrix whose top-left block is the
\* matrix of the inverse of exp(omega), whose bottom-right block is
\* rightJacobianSO3(omega) and whose off-diagonal blocks are zero.
C5_BlockLayout ==
  \A t \in Threads :
    (Done(t) /\ thr[t].fn = "rightJacobianSE3Decoupled") =>
      /\ topLeftCorner(out[t]) = InverseRotationMatrix[omega]
      /\ Tracked(topLeftCorner(out[t])) =>
           MatMul(RotationMatrix[omega], topLeftCorner(out[t])) = Identity(3)
      /\ \A x \in JunkFill :
           bottomRightCorner(out[t]) = RunAlone("rightJacobianSO3", omega, x)
      /\ Block(out[t], 0, 3) = ZeroBlock
      /\ Block(out[t], 3, 0) = ZeroBlock
      /\ \A x \in JunkFill : out[t] = RunAlone("rightJacobianSE3Decoupled", omega, x)

C5_Witness ==
  \E t \in Threads :
    /\ Done(t)
    /\ thr[t].fn = "rightJacobianSE3Decoupled"
    /\ head3(phi) # Zero3
    /\ norm(omega) = PiQ(1, 2)
    /\ topLeftCorner(out[t]) # Transpose(topLeftCorner(out[t]))
    /\ bottomRightCorner(out[t]) # Identity(3)

\* C6: rightJacobianInvSE3Decoupled returns, whatever its output held, the 6x6
\* matrix whose top-left block is the rotation matrix of exp(omega) (not
\* inverted), whose bottom-right block is rightJacobianInvSO3(omega) and whose
\* off-diagonal blocks are zero.
C6_BlockLayoutInv ==
  \A t \in Threads :
    (Done(t) /\ thr[t].fn = "rightJacobianInvSE3Decoupled") =>
      /\ topLeftCorner(out[t]) = RotationMatrix[omega]
      /\ \A x \in JunkFill :
           bottomRightCorner(out[t]) = RunAlone("rightJacobianInvSO3", omega, x)
      /\ Block(out[t], 0, 3) = ZeroBlock
      /\ Block(out[t], 3, 0) = ZeroBlock

C6_Witness ==
  \E t \in Threads :
    /\ Done(t)
    /\ thr[t].fn = "rightJacobianInvSE3Decoupled"
    /\ norm(omega) = PiQ(1, 2)
    /\ topLeftCorner(out[t]) # Transpose(topLeftCorner(out[t]))
    /\ bottomRightCorner(out[t]) # Identity(3)
    /\ AllFinite(out[t])

\* C9: in every interleaving of two calls on the shared phi, each with its own
\* output matrix: no step changes phi, a step changes only the output and the
\* locals of the call that takes it, and a call that has returned has left in
\* its output what the same call returns when run alone.
C9_Isolation ==
  [][ /\ phi' = phi
      /\ \A t \in Threads :
           (out'[t] # out[t] \/ locals'[t] # locals[t]) => thr'[t] # thr[t]
      /\ \A t \in Threads :
           thr'[t].pc = "done" =>
             \A x \in JunkFill : out'[t] = RunAlone(thr'[t].fn, omega, x)
    ]_vars

C9_Witness ==
  \E t, u \in Threads :
    /\ thr[t].pc = "second"
    /\ Done(u)
    /\ thr[u].took = "general"
    /\ thr[u].fn # thr[t].fn
    /\ out[u] = RunAlone(thr[u].fn, omega, Num(7))

\* C10: two calls on the same phi, of any of the four SO(3) Jacobians or of
\* the decoupled SE(3) Jacobians, take the same branch: the general one when
\* the norm of the rotation part is greater than epsilon, the identity
\* otherwise.
C10_SharedThreshold ==
  /\ \A t \in Threads :
       thr[t].took # "none" =>
         (thr[t].took = "general" <=> Less(Epsilon, norm(omega)))
  /\ \A t, u \in Threads :
       (thr[t].took # "none" /\ thr[u].took # "none") => thr[t].took = thr[u].took

C10_Witness ==
  /\ norm(omega) = Epsilon
  /\ thr[1].fn = "rightJacobianSO3" /\ thr[1].took = "identity"
  /\ thr[2].fn = "leftJacobianInvSO3" /\ thr[2].took = "identity"

\* C11: with J = rightJacobianSE3Decoupled(phi), the translation of
\* expd(phi) * expd(J * eps) is t + eps_t, the translation of expd(phi + eps),
\* whatever the rotation parts of phi and of eps are
C11_TranslationExact ==
  rel.pc = "done" =>
    /\ rel.prod.translation = VecAdd(head3(phi), head3(rel.eps))
    /\ rel.prod.translation = expd(VecAdd(phi, rel.eps)).translation

\* a quarter turn, a translation, and an increment whose translation the
\* Jacobian has turned and whose rotation is not zero
C11_Witness ==
  /\ rel.pc = "done"
  /\ norm(omega) = PiQ(1, 2)
  /\ head3(phi) # Zero3
  /\ tail3(rel.eps) # Zero3
  /\ head3(rel.eps) # Zero3
  /\ head3(rel.Jeps) # head3(rel.eps)
  /\ tail3(rel.Jeps) # tail3(rel.eps)

====
